---- MODULE Spec2Model ----
(***************************************************************************)
(* Model of doc/implementors/core/convert/trait.From.js, a rustdoc data    *)
(* file: an immediately-invoked function builds the table `implementors`   *)
(* and either hands it to window.register_implementors or parks it in      *)
(* window.pending_implementors.  The page around it (other scripts writing *)
(* the two globals, the consumer in main.js) is the environment.           *)
(***************************************************************************)
EXTENDS Integers, Sequences, FiniteSets, TLC

VARIABLES
    register_implementors,  \* window.register_implementors, a JavaScript value
    pending_implementors,   \* window.pending_implementors: NoValue or Some(ref)
    heap,                   \* the objects the file has built, by reference
    calls,                  \* every invocation of a hook so far: [fn, args]
    completion,             \* completion record of the latest run of the file
    steps,                  \* one record per run of the file (observer)
    consumerDone,           \* the page's consumer script has run
    foreign                 \* some other script wrote one of the two globals

vars == <<register_implementors, pending_implementors, heap, calls,
          completion, steps, consumerDone, foreign>>

\* Number of times the file is loaded in one page.
MaxLoads == 2

----------------------------------------------------------------------------
(* JavaScript values *)

\* An absent (undefined) slot and a slot holding a reference x to an object.
NoValue == << >>
Some(x) == << x >>

\* The values window.register_implementors takes in the model: absent, a
\* falsy value, a truthy value that is no function, the consumer's hook,
\* a hook that throws.
HookValues == {"undefined", "0", "{}", "fnRegister", "fnThrows"}

\* `{}` and `obj[key] = val` on a plain object.
EmptyObject == [k \in {} |-> << >>]
SetProp(obj, key, val) ==
    [k \in (DOMAIN obj) \cup {key} |-> IF k = key THEN val ELSE obj[k]]

\* Array literal with its trailing comma: the comma adds no element.
multipart_entries == <<
       "impl&lt;'a&gt; <a class='trait' href='https://doc.rust-lang.org/nightly/core/convert/trait.From.html' title='core::convert::From'>From</a>&lt;&amp;'a <a class='primitive' href='https://doc.rust-lang.org/nightly/std/primitive.str.html'>str</a>&gt; for <a class='enum' href='https://hyperium.github.io/hyper/hyper/client/pool/enum.Scheme.html' title='hyper::client::pool::Scheme'>Scheme</a>",
       "impl&lt;'a, R&gt; <a class='trait' href='https://doc.rust-lang.org/nightly/core/convert/trait.From.html' title='core::convert::From'>From</a>&lt;&amp;'a mut R&gt; for <a class='enum' href='https://hyperium.github.io/hyper/hyper/client/enum.Body.html' title='hyper::client::Body'>Body</a>&lt;'a&gt; <span class='where'>where R: <a class='trait' href='https://doc.rust-lang.org/nightly/std/io/trait.Read.html' title='std::io::Read'>Read</a></span>",
       "impl <a class='trait' href='https://doc.rust-lang.org/nightly/core/convert/trait.From.html' title='core::convert::From'>From</a>&lt;<a class='struct' href='https://doc.rust-lang.org/nightly/std/io/error/struct.Error.html' title='std::io::error::Error'>Error</a>&gt; for <a class='enum' href='https://hyperium.github.io/hyper/hyper/error/enum.Error.html' title='hyper::error::Error'>Error</a>",
       "impl <a class='trait' href='https://doc.rust-lang.org/nightly/core/convert/trait.From.html' title='core::convert::From'>From</a>&lt;ParseError&gt; for <a class='enum' href='https://hyperium.github.io/hyper/hyper/error/enum.Error.html' title='hyper::error::Error'>Error</a>",
       "impl <a class='trait' href='https://doc.rust-lang.org/nightly/core/convert/trait.From.html' title='core::convert::From'>From</a>&lt;<a class='enum' href='https://sfackler.github.io/rust-openssl/doc/v0.7.9/openssl/ssl/error/enum.SslError.html' title='openssl::ssl::error::SslError'>SslError</a>&gt; for <a class='enum' href='https://hyperium.github.io/hyper/hyper/error/enum.Error.html' title='hyper::error::Error'>Error</a>",
       "impl <a class='trait' href='https://doc.rust-lang.org/nightly/core/convert/trait.From.html' title='core::convert::From'>From</a>&lt;<a class='struct' href='https://doc.rust-lang.org/nightly/core/str/struct.Utf8Error.html' title='core::str::Utf8Error'>Utf8Error</a>&gt; for <a class='enum' href='https://hyperium.github.io/hyper/hyper/error/enum.Error.html' title='hyper::error::Error'>Error</a>",
       "impl <a class='trait' href='https://doc.rust-lang.org/nightly/core/convert/trait.From.html' title='core::convert::From'>From</a>&lt;<a class='struct' href='https://doc.rust-lang.org/nightly/collections/string/struct.FromUtf8Error.html' title='collections::string::FromUtf8Error'>FromUtf8Error</a>&gt; for <a class='enum' href='https://hyperium.github.io/hyper/hyper/error/enum.Error.html' title='hyper::error::Error'>Error</a>",
       "impl <a class='trait' href='https://doc.rust-lang.org/nightly/core/convert/trait.From.html' title='core::convert::From'>From</a>&lt;Error&gt; for <a class='enum' href='https://hyperium.github.io/hyper/hyper/error/enum.Error.html' title='hyper::error::Error'>Error</a>",
       "impl <a class='trait' href='https://doc.rust-lang.org/nightly/core/convert/trait.From.html' title='core::convert::From'>From</a>&lt;<a class='enum' href='https://mlalic.github.io/solicit/solicit/http/enum.HttpError.html' title='solicit::http::HttpError'>HttpError</a>&gt; for <a class='enum' href='https://hyperium.github.io/hyper/hyper/error/enum.Error.html' title='hyper::error::Error'>Error</a>",
       "impl&lt;T&gt; <a class='trait' href='https://doc.rust-lang.org/nightly/core/convert/trait.From.html' title='core::convert::From'>From</a>&lt;<a class='struct' href='https://doc.rust-lang.org/nightly/collections/vec/struct.Vec.html' title='collections::vec::Vec'>Vec</a>&lt;T&gt;&gt; for <a class='struct' href='https://doc.rust-lang.org/nightly/collections/binary_heap/struct.BinaryHeap.html' title='collections::binary_heap::BinaryHeap'>BinaryHeap</a>&lt;T&gt; <span class='where'>where T: <a class='trait' href='https://doc.rust-lang.org/nightly/core/cmp/trait.Ord.html' title='core::cmp::Ord'>Ord</a></span>",
       "impl&lt;T&gt; <a class='trait' href='https://doc.rust-lang.org/nightly/core/convert/trait.From.html' title='core::convert::From'>From</a>&lt;<a class='struct' href='https://doc.rust-lang.org/nightly/collections/binary_heap/struct.BinaryHeap.html' title='collections::binary_heap::BinaryHeap'>BinaryHeap</a>&lt;T&gt;&gt; for <a class='struct' href='https://doc.rust-lang.org/nightly/collections/vec/struct.Vec.html' title='collections::vec::Vec'>Vec</a>&lt;T&gt;",
       "impl&lt;'a, T&gt; <a class='trait' href='https://doc.rust-lang.org/nightly/core/convert/trait.From.html' title='core::convert::From'>From</a>&lt;&amp;'a mut <a class='enum' href='https://doc.rust-lang.org/nightly/core/option/enum.Option.html' title='core::option::Option'>Option</a>&lt;<a class='struct' href='https://doc.rust-lang.org/nightly/alloc/boxed/struct.Box.html' title='alloc::boxed::Box'>Box</a>&lt;<a class='struct' href='https://doc.rust-lang.org/nightly/collections/linked_list/struct.Node.html' title='collections::linked_list::Node'>Node</a>&lt;T&gt;&gt;&gt;&gt; for <a class='struct' href='https://doc.rust-lang.org/nightly/collections/linked_list/struct.Rawlink.html' title='collections::linked_list::Rawlink'>Rawlink</a>&lt;<a class='struct' href='https://doc.rust-lang.org/nightly/collections/linked_list/struct.Node.html' title='collections::linked_list::Node'>Node</a>&lt;T&gt;&gt;",
       "impl&lt;'a&gt; <a class='trait' href='https://doc.rust-lang.org/nightly/core/convert/trait.From.html' title='core::convert::From'>From</a>&lt;&amp;'a <a class='primitive' href='https://doc.rust-lang.org/nightly/std/primitive.str.html'>str</a>&gt; for <a class='struct' href='https://doc.rust-lang.org/nightly/collections/string/struct.String.html' title='collections::string::String'>String</a>",
       "impl&lt;'a&gt; <a class='trait' href='https://doc.rust-lang.org/nightly/core/convert/trait.From.html' title='core::convert::From'>From</a>&lt;&amp;'a <a class='primitive' href='https://doc.rust-lang.org/nightly/std/primitive.str.html'>str</a>&gt; for <a class='enum' href='https://doc.rust-lang.org/nightly/collections/borrow/enum.Cow.html' title='collections::borrow::Cow'>Cow</a>&lt;'a, <a class='primitive' href='https://doc.rust-lang.org/nightly/std/primitive.str.html'>str</a>&gt;",
       "impl&lt;'a&gt; <a class='trait' href='https://doc.rust-lang.org/nightly/core/convert/trait.From.html' title='core::convert::From'>From</a>&lt;<a class='struct' href='https://doc.rust-lang.org/nightly/collections/string/struct.String.html' title='collections::string::String'>String</a>&gt; for <a class='enum' href='https://doc.rust-lang.org/nightly/collections/borrow/enum.Cow.html' title='collections::borrow::Cow'>Cow</a>&lt;'a, <a class='primitive' href='https://doc.rust-lang.org/nightly/std/primitive.str.html'>str</a>&gt;",
       "impl&lt;'a, T&gt; <a class='trait' href='https://doc.rust-lang.org/nightly/core/convert/trait.From.html' title='core::convert::From'>From</a>&lt;<a class='primitive' href='https://doc.rust-lang.org/nightly/std/primitive.slice.html'>&amp;'a [T]</a>&gt; for <a class='struct' href='https://doc.rust-lang.org/nightly/collections/vec/struct.Vec.html' title='collections::vec::Vec'>Vec</a>&lt;T&gt; <span class='where'>where T: <a class='trait' href='https://doc.rust-lang.org/nightly/core/clone/trait.Clone.html' title='core::clone::Clone'>Clone</a></span>",
       "impl&lt;'a&gt; <a class='trait' href='https://doc.rust-lang.org/nightly/core/convert/trait.From.html' title='core::convert::From'>From</a>&lt;&amp;'a <a class='primitive' href='https://doc.rust-lang.org/nightly/std/primitive.str.html'>str</a>&gt; for <a class='struct' href='https://doc.rust-lang.org/nightly/collections/vec/struct.Vec.html' title='collections::vec::Vec'>Vec</a>&lt;<a class='primitive' href='https://doc.rust-lang.org/nightly/std/primitive.u8.html'>u8</a>&gt;",
       "impl&lt;T&gt; <a class='trait' href='https://doc.rust-lang.org/nightly/core/convert/trait.From.html' title='core::convert::From'>From</a>&lt;T&gt; for <a class='struct' href='https://doc.rust-lang.org/nightly/alloc/boxed/struct.Box.html' title='alloc::boxed::Box'>Box</a>&lt;T&gt;",
       "impl&lt;W&gt; <a class='trait' href='https://doc.rust-lang.org/nightly/core/convert/trait.From.html' title='core::convert::From'>From</a>&lt;<a class='struct' href='https://hyperium.github.io/hyper/hyper/http/h1/struct.EndError.html' title='hyper::http::h1::EndError'>EndError</a>&lt;W&gt;&gt; for <a class='struct' href='https://doc.rust-lang.org/nightly/std/io/error/struct.Error.html' title='std::io::error::Error'>Error</a> <span class='where'>where W: <a class='trait' href='https://doc.rust-lang.org/nightly/std/io/trait.Write.html' title='std::io::Write'>Write</a></span>",
       "impl <a class='trait' href='https://doc.rust-lang.org/nightly/core/convert/trait.From.html' title='core::convert::From'>From</a>&lt;<a class='struct' href='https://doc.rust-lang.org/nightly/std/io/error/struct.Error.html' title='std::io::error::Error'>Error</a>&gt; for <a class='struct' href='https://hyperium.github.io/hyper/hyper/http/h2/struct.Http2ConnectError.html' title='hyper::http::h2::Http2ConnectError'>Http2ConnectError</a>",
       "impl&lt;T&gt; <a class='trait' href='https://doc.rust-lang.org/nightly/core/convert/trait.From.html' title='core::convert::From'>From</a>&lt;T&gt; for <a class='struct' href='https://doc.rust-lang.org/nightly/alloc/boxed/struct.Box.html' title='alloc::boxed::Box'>Box</a>&lt;<a class='trait' href='https://hyperium.github.io/hyper/hyper/net/trait.NetworkStream.html' title='hyper::net::NetworkStream'>NetworkStream</a> + 'static + <a class='trait' href='https://doc.rust-lang.org/nightly/core/marker/trait.Send.html' title='core::marker::Send'>Send</a>&gt; <span class='where'>where T: <a class='trait' href='https://doc.rust-lang.org/nightly/core/marker/trait.Send.html' title='core::marker::Send'>Send</a> + <a class='trait' href='https://hyperium.github.io/hyper/hyper/net/trait.NetworkStream.html' title='hyper::net::NetworkStream'>NetworkStream</a></span>",
       "impl <a class='trait' href='https://doc.rust-lang.org/nightly/core/convert/trait.From.html' title='core::convert::From'>From</a>&lt;<a class='struct' href='https://doc.rust-lang.org/nightly/std/net/tcp/struct.TcpListener.html' title='std::net::tcp::TcpListener'>TcpListener</a>&gt; for <a class='struct' href='https://hyperium.github.io/hyper/hyper/net/struct.HttpListener.html' title='hyper::net::HttpListener'>HttpListener</a>",
       "impl <a class='trait' href='https://doc.rust-lang.org/nightly/core/convert/trait.From.html' title='core::convert::From'>From</a>&lt;<a class='primitive' href='https://doc.rust-lang.org/nightly/std/primitive.i8.html'>i8</a>&gt; for StatusCode",
       "impl <a class='trait' href='https://doc.rust-lang.org/nightly/core/convert/trait.From.html' title='core::convert::From'>From</a>&lt;<a class='primitive' href='https://doc.rust-lang.org/nightly/std/primitive.u8.html'>u8</a>&gt; for StatusCode",
       "impl <a class='trait' href='https://doc.rust-lang.org/nightly/core/convert/trait.From.html' title='core::convert::From'>From</a>&lt;<a class='primitive' href='https://doc.rust-lang.org/nightly/std/primitive.i16.html'>i16</a>&gt; for StatusCode",
       "impl <a class='trait' href='https://doc.rust-lang.org/nightly/core/convert/trait.From.html' title='core::convert::From'>From</a>&lt;<a class='primitive' href='https://doc.rust-lang.org/nightly/std/primitive.u16.html'>u16</a>&gt; for StatusCode",
       "impl <a class='trait' href='https://doc.rust-lang.org/nightly/core/convert/trait.From.html' title='core::convert::From'>From</a>&lt;<a class='primitive' href='https://doc.rust-lang.org/nightly/std/primitive.i32.html'>i32</a>&gt; for StatusCode",
       "impl <a class='trait' href='https://doc.rust-lang.org/nightly/core/convert/trait.From.html' title='core::convert::From'>From</a>&lt;<a class='primitive' href='https://doc.rust-lang.org/nightly/std/primitive.u32.html'>u32</a>&gt; for StatusCode",
       "impl <a class='trait' href='https://doc.rust-lang.org/nightly/core/convert/trait.From.html' title='core::convert::From'>From</a>&lt;<a class='primitive' href='https://doc.rust-lang.org/nightly/std/primitive.tuple.html'>(<a class='primitive' href='https://doc.rust-lang.org/nightly/std/primitive.u8.html'>u8</a>, <a class='primitive' href='https://doc.rust-lang.org/nightly/std/primitive.u8.html'>u8</a>)</a>&gt; for HTTPVersion",
       "impl <a class='trait' href='https://doc.rust-lang.org/nightly/core/convert/trait.From.html' title='core::convert::From'>From</a>&lt;<a class='struct' href='https://doc.rust-lang.org/nightly/std/io/error/struct.Error.html' title='std::io::error::Error'>Error</a>&gt; for RequestCreationError",
       "impl <a class='trait' href='https://doc.rust-lang.org/nightly/core/convert/trait.From.html' title='core::convert::From'>From</a>&lt;<a class='struct' href='https://doc.rust-lang.org/nightly/std/net/tcp/struct.TcpStream.html' title='std::net::tcp::TcpStream'>TcpStream</a>&gt; for Stream",
       "impl <a class='trait' href='https://doc.rust-lang.org/nightly/core/convert/trait.From.html' title='core::convert::From'>From</a>&lt;<a class='struct' href='https://doc.rust-lang.org/nightly/std/io/error/struct.Error.html' title='std::io::error::Error'>Error</a>&gt; for Message",
       "impl <a class='trait' href='https://doc.rust-lang.org/nightly/core/convert/trait.From.html' title='core::convert::From'>From</a>&lt;<a class='struct' href='multipart/server/tiny_http/struct.TinyHttpRequest.html' title='multipart::server::tiny_http::TinyHttpRequest'>Request</a>&gt; for Message" >>

\* Mutant: the generator emitted the key with no entries.
implementors_Empty == SetProp(EmptyObject, "multipart", << >>)

\* var implementors = {}; implementors['multipart'] = [...];
implementors == SetProp(EmptyObject, "multipart", multipart_entries)

\* The table of some other data file of the same documentation tree, and
\* the reference the page holds to it.
OtherTable == SetProp(EmptyObject, "hyper", << "impl From for Other" >>)
OtherRef == 0

\* The object a reference points to.
Deref(r) == IF r = OtherRef THEN OtherTable ELSE heap[r]

\* JavaScript ToBoolean, as applied by `if (window.register_implementors)`.
ToBoolean(v) == v \notin {"undefined", "0"}

\* Whether the call expression `v(...)` finds a function to call.
IsCallable(v) == v \in {"fnRegister", "fnThrows"}

\* Whether the body of the function v throws.  A hook's body is the page's:
\* of its effects the model keeps the call itself and how it completes.
HookThrows(v) == v = "fnThrows"

NormalCompletion == [type |-> "normal", value |-> "undefined"]
ThrowCompletion(e) == [type |-> "throw", value |-> e]

----------------------------------------------------------------------------
(* The file *)

Init ==
    /\ register_implementors = "undefined"
    /\ pending_implementors = NoValue
    /\ heap = << >>
    /\ calls = << >>
    /\ completion = NormalCompletion
    /\ steps = << >>
    /\ consumerDone = FALSE
    /\ foreign = FALSE

\* The reference held by the local variable `implementors` during a run.
implementorsRef == Len(heap) + 1

\* The effect of the call expression f(args), with the frame it leaves alone.
CallOf(f, args) ==
    IF IsCallable(f)
    THEN /\ calls' = Append(calls, [fn |-> f, args |-> args])
         /\ completion' = IF HookThrows(f) THEN ThrowCompletion("HookError")
                                           ELSE NormalCompletion
    ELSE /\ calls' = calls
         /\ completion' = ThrowCompletion("TypeError")

\* Mutant: the hook is called twice.
HookBranch_Twice ==
    /\ IF IsCallable(register_implementors)
       THEN /\ calls' = calls \o << [fn |-> register_implementors,
                                     args |-> << implementorsRef >>],
                                    [fn |-> register_implementors,
                                     args |-> << implementorsRef >>] >>
            /\ completion' = IF HookThrows(register_implementors)
                             THEN ThrowCompletion("HookError")
                             ELSE NormalCompletion
       ELSE /\ calls' = calls
            /\ completion' = ThrowCompletion("TypeError")
    /\ UNCHANGED <<register_implementors, pending_implementors>>

\* Mutant: the hook branch drops the table.
HookBranch_Drop ==
    /\ completion' = NormalCompletion
    /\ UNCHANGED <<register_implementors, pending_implementors, calls>>

\* Mutant: the call is guarded by a typeof test, a non-function is skipped.
HookBranch_Guarded ==
    /\ IF IsCallable(register_implementors)
       THEN CallOf(register_implementors, << implementorsRef >>)
       ELSE calls' = calls /\ completion' = NormalCompletion
    /\ UNCHANGED <<register_implementors, pending_implementors>>

\* Mutant: a one-shot hook, uninstalled once it has been called.
HookBranch_Uninstall ==
    /\ CallOf(register_implementors, << implementorsRef >>)
    /\ register_implementors' = "undefined"
    /\ UNCHANGED pending_implementors

\* Mutant: once the table is delivered the pending slot is cleared.
HookBranch_ClearsPending ==
    /\ CallOf(register_implementors, << implementorsRef >>)
    /\ pending_implementors' = NoValue
    /\ UNCHANGED register_implementors

\* Mutant: the table is parked on the hook branch too.
HookBranch_AlsoParks ==
    /\ CallOf(register_implementors, << implementorsRef >>)
    /\ pending_implementors' = Some(implementorsRef)
    /\ UNCHANGED register_implementors

\* window.register_implementors(implementors);
HookBranch ==
    /\ CallOf(register_implementors, << implementorsRef >>)
    /\ UNCHANGED <<register_implementors, pending_implementors>>

\* Mutant: the assignment goes to a local variable, not to window.
PendingBranch_Local ==
    /\ completion' = NormalCompletion
    /\ UNCHANGED <<register_implementors, pending_implementors, calls>>

\* Mutant: window.pending_implementors = window.pending_implementors || implementors;
PendingBranch_KeepFirst ==
    /\ pending_implementors' = IF pending_implementors = NoValue
                               THEN Some(implementorsRef)
                               ELSE pending_implementors
    /\ completion' = NormalCompletion
    /\ UNCHANGED <<register_implementors, calls>>

\* window.pending_implementors = implementors;
PendingBranch ==
    /\ pending_implementors' = Some(implementorsRef)
    /\ completion' = NormalCompletion
    /\ UNCHANGED <<register_implementors, calls>>

\* (function() { ... if (window.register_implementors) {...} else {...} })()
RegistrationStep ==
    /\ Len(steps) < MaxLoads
    /\ heap' = Append(heap, implementors)
    /\ IF ToBoolean(register_implementors) THEN HookBranch ELSE PendingBranch
    /\ steps' = Append(steps,
                  [hookBefore    |-> register_implementors,
                   hookAfter     |-> register_implementors',
                   pendingBefore |-> pending_implementors,
                   pendingAfter  |-> pending_implementors',
                   callsMade     |-> SubSeq(calls', Len(calls) + 1, Len(calls')),
                   completion    |-> completion'])
    /\ UNCHANGED <<consumerDone, foreign>>

----------------------------------------------------------------------------
(* The page around the file *)

\* Another script assigns window.register_implementors.
InstallHook(v) ==
    /\ v # register_implementors
    /\ register_implementors' = v
    /\ foreign' = TRUE
    /\ UNCHANGED <<pending_implementors, heap, calls, completion, steps, consumerDone>>

\* Another data file, loaded with no hook installed, parks its own table.
OtherFileParks ==
    /\ ~ToBoolean(register_implementors)
    /\ pending_implementors # Some(OtherRef)
    /\ pending_implementors' = Some(OtherRef)
    /\ foreign' = TRUE
    /\ UNCHANGED <<register_implementors, heap, calls, completion, steps, consumerDone>>

\* The consumer: it installs its hook and drains the pending slot once.
ConsumerInit ==
    /\ ~consumerDone
    /\ consumerDone' = TRUE
    /\ register_implementors' = "fnRegister"
    /\ calls' = IF pending_implementors # NoValue
                THEN Append(calls, [fn |-> "fnRegister",
                                    args |-> << pending_implementors[1] >>])
                ELSE calls
    /\ UNCHANGED <<pending_implementors, heap, completion, steps, foreign>>

Next ==
    \/ RegistrationStep
    \/ \E v \in HookValues : InstallHook(v)
    \/ OtherFileParks
    \/ ConsumerInit

Spec == Init /\ [][Next]_vars

----------------------------------------------------------------------------
(* Properties *)

\* The table as the file writes it, as a record.
LiteralTable == [multipart |-> multipart_entries]

\* Equality of two tables by key set and by per-key sequence content and order.
SameTable(a, b) ==
    /\ DOMAIN a = DOMAIN b
    /\ \A k \in DOMAIN a :
          /\ Len(a[k]) = Len(b[k])
          /\ \A i \in 1..Len(a[k]) : a[k][i] = b[k][i]

\* A slot that holds a reference to a table equal to the literal table.
HoldsLiteral(slot) == slot # NoValue /\ SameTable(Deref(slot[1]), LiteralTable)

\* The hook slot holds a function (a hook is installed).
HookInstalled(v) == v \in {"fnRegister", "fnThrows"}

Runs == DOMAIN steps

\* C1: a run that starts with a hook installed invokes that hook exactly once
\* during the run, with one argument, a table equal to the literal table by key
\* set and per-key sequence content and order.
C1_HookInvokedOnceWithTable ==
    \A i \in Runs :
        HookInstalled(steps[i].hookBefore) =>
            /\ Len(steps[i].callsMade) = 1
            /\ steps[i].callsMade[1].fn = steps[i].hookBefore
            /\ Len(steps[i].callsMade[1].args) = 1
            /\ SameTable(Deref(steps[i].callsMade[1].args[1]), LiteralTable)

C1_Witness ==
    \E i \in Runs : /\ steps[i].hookBefore = "fnRegister"
                    /\ Len(steps[i].callsMade) = 1

\* C2: a run that starts with the hook unset leaves the pending slot holding a
\* table equal to the literal table, and invokes no hook.
C2_UnsetHookParksTable ==
    \A i \in Runs :
        steps[i].hookBefore = "undefined" =>
            /\ HoldsLiteral(steps[i].pendingAfter)
            /\ steps[i].callsMade = << >>

C2_Witness ==
    \E i \in Runs : /\ steps[i].hookBefore = "undefined"
                    /\ steps[i].pendingBefore = NoValue
                    /\ steps[i].pendingAfter # NoValue

\* C3: the pending slot is overwritten, last write wins: a run with the hook
\* unset that finds a table already parked leaves the slot holding the object
\* built by this very run, equal to the literal table with nothing merged in
\* or appended, and leaves every object built before as it was.
C3_PendingOverwritten ==
    \A i \in Runs :
        (steps[i].hookBefore = "undefined" /\ steps[i].pendingBefore # NoValue) =>
            /\ steps[i].pendingAfter = Some(i)
            /\ SameTable(heap[i], LiteralTable)
            /\ \A j \in 1..(i - 1) : SameTable(heap[j], LiteralTable)

C3_Witness ==
    \E i \in Runs :
        /\ i > 1
        /\ steps[i - 1].hookBefore = "undefined"
        /\ steps[i].hookBefore = "undefined"
        /\ steps[i].pendingBefore = steps[i - 1].pendingAfter
        /\ steps[i].pendingAfter = Some(i)

\* C4 as stated: whatever the hook slot holds, a run completes normally.
C4_StepNeverFails ==
    \A i \in Runs : steps[i].completion = NormalCompletion

\* C4 amended: a run completes normally, with no value, exactly when the hook
\* slot is falsy or holds a function that returns; a truthy value that is no
\* function makes the call raise TypeError, and what a hook throws leaves the
\* run.
C4_StepFailsOnlyThroughHook ==
    \A i \in Runs :
        /\ steps[i].hookBefore \in {"undefined", "0", "fnRegister"} =>
              steps[i].completion = [type |-> "normal", value |-> "undefined"]
        /\ steps[i].hookBefore = "{}" =>
              steps[i].completion = [type |-> "throw", value |-> "TypeError"]
        /\ steps[i].hookBefore = "fnThrows" =>
              steps[i].completion = [type |-> "throw", value |-> "HookError"]

C4_Witness ==
    /\ \E i \in Runs : steps[i].hookBefore = "{}"
    /\ \E i \in Runs : steps[i].hookBefore = "undefined"

\* C5: every table the file builds has the key set {"multipart"}, and under
\* that key a non-empty sequence of non-empty strings.
C5_TableShape ==
    \A r \in DOMAIN heap :
        /\ DOMAIN heap[r] = {"multipart"}
        /\ Len(heap[r]["multipart"]) > 0
        /\ \A k \in 1..Len(heap[r]["multipart"]) :
              /\ heap[r]["multipart"][k] # ""
              /\ Len(heap[r]["multipart"][k]) > 0

C5_Witness ==
    /\ pending_implementors = Some(1)
    /\ \E c \in DOMAIN calls : calls[c].args = << 2 >>

\* C6: no run installs, replaces or clears the hook, and a run writes the
\* pending slot only when it started with a falsy hook slot.
C6_HookNeverWritten ==
    \A i \in Runs :
        /\ steps[i].hookAfter = steps[i].hookBefore
        /\ steps[i].pendingAfter # steps[i].pendingBefore =>
              steps[i].hookBefore \in {"undefined", "0"}

C6_Witness ==
    /\ \E i \in Runs : steps[i].hookBefore = "fnThrows"
    /\ \E i \in Runs : steps[i].pendingAfter # steps[i].pendingBefore

\* C7: two runs in a row with the same hook installed make two calls with
\* identical arguments, and leave the pending slot and the hook after the
\* second run as they were after the first.
C7_HookPathIdempotent ==
    \A i \in Runs :
        (/\ i > 1
         /\ HookInstalled(steps[i].hookBefore)
         /\ steps[i - 1].hookBefore = steps[i].hookBefore
         /\ steps[i].hookBefore = steps[i - 1].hookAfter
         /\ steps[i].pendingBefore = steps[i - 1].pendingAfter) =>
            /\ Len(steps[i].callsMade) = Len(steps[i - 1].callsMade)
            /\ \A c \in 1..Len(steps[i].callsMade) :
                  /\ steps[i].callsMade[c].fn = steps[i - 1].callsMade[c].fn
                  /\ Len(steps[i].callsMade[c].args)
                        = Len(steps[i - 1].callsMade[c].args)
                  /\ \A a \in 1..Len(steps[i].callsMade[c].args) :
                        SameTable(Deref(steps[i].callsMade[c].args[a]),
                                  Deref(steps[i - 1].callsMade[c].args[a]))
            /\ steps[i].completion = steps[i - 1].completion
            /\ steps[i].pendingAfter = steps[i - 1].pendingAfter
            /\ steps[i].hookAfter = steps[i - 1].hookAfter

C7_Witness ==
    \E i \in Runs :
        /\ i > 1
        /\ steps[i].hookBefore = "fnRegister"
        /\ steps[i - 1].hookBefore = "fnRegister"
        /\ steps[i].pendingBefore = steps[i - 1].pendingAfter
        /\ Len(steps[i].callsMade) = 1
        /\ Len(steps[i - 1].callsMade) = 1

\* The calls in which the consumer's hook received a table equal to the
\* literal table.
Received ==
    {c \in DOMAIN calls : /\ calls[c].fn = "fnRegister"
                          /\ Len(calls[c].args) = 1
                          /\ SameTable(Deref(calls[c].args[1]), LiteralTable)}

\* C8: with one load of the file, a consumer that installs its hook and drains
\* the pending slot once, and no other script writing the two globals, the
\* consumer has received the file's table exactly once when both have run,
\* whichever ran first.
C8_HandoffExactlyOnce ==
    (consumerDone /\ ~foreign /\ Len(steps) = 1) => Cardinality(Received) = 1

C8_Witness ==
    /\ consumerDone /\ ~foreign /\ Len(steps) = 1
    /\ steps[1].hookBefore = "undefined"
    /\ Cardinality(Received) = 1

C8_WitnessHookFirst ==
    /\ consumerDone /\ ~foreign /\ Len(steps) = 1
    /\ steps[1].hookBefore = "fnRegister"
    /\ Cardinality(Received) = 1

\* The two effects of a run: a call of the hook with the pending slot left as
\* it was, or the table parked with no call.
Delivered(i) ==
    /\ Len(steps[i].callsMade) = 1
    /\ steps[i].pendingAfter = steps[i].pendingBefore
Parked(i) ==
    /\ steps[i].callsMade = << >>
    /\ steps[i].pendingAfter = Some(i)

\* C9 as stated: every run performs exactly one of the two effects.
C9_ExactlyOneEffect ==
    \A i \in Runs : Delivered(i) # Parked(i)

\* C9 amended: every run whose hook slot is falsy or holds a function performs
\* exactly one of the two effects; a run whose hook slot holds a truthy value
\* that is no function raises TypeError having performed neither.
C9_ExactlyOneEffectUnlessTypeError ==
    \A i \in Runs :
        IF steps[i].hookBefore = "{}"
        THEN /\ steps[i].callsMade = << >>
             /\ steps[i].pendingAfter = steps[i].pendingBefore
        ELSE Delivered(i) # Parked(i)

C9_Witness ==
    /\ \E i \in Runs : Delivered(i) /\ steps[i].pendingBefore # NoValue
    /\ \E i \in Runs : Parked(i)

====
